---- MODULE Spec2Model ----
(***************************************************************************)
(* A model of dashboard.py, the OpenClaw terminal dashboard.               *)
(*                                                                         *)
(* The parts of the program are modelled each with its own specification  *)
(* over the variables it owns:                                             *)
(*   SpecQuant     make_bar and make_sparkline applied to arbitrary        *)
(*                 arguments                                               *)
(*   SpecTimers    the panels' interval timers, the manual refresh         *)
(*                 (action_refresh) and the sample history buffers         *)
(*   SpecSessions  sessions.json, get_sessions and the sessions panel      *)
(*   SpecLogs      the *.jsonl session logs, get_usage_5h and get_costs    *)
(*   SpecRollup    the same logs and panels over several days              *)
(*                                                                         *)
(* Units.  Log time (now, timestamps, mtimes) is counted in minutes; the   *)
(* code counts milliseconds, and every duration it uses is a whole number  *)
(* of minutes (5 h, 30 min, the 60 000 ms floor of the burn span).         *)
(* Scheduler time (clock) is counted in seconds.                           *)
(***************************************************************************)
EXTENDS Integers, Sequences, FiniteSets, TLC

VARIABLES
    \* SpecQuant
    sl_args,            \* the arguments of the make_sparkline call
    sl_result,          \* what the call returned (None before the call)
    bar_args,           \* the arguments of the make_bar call
    bar_result,         \* what the call returned (None before the call)
    \* SpecTimers
    clock,              \* seconds since the panels were mounted
    due,                \* panel -> the time its interval timer fires next
    calls,              \* panel -> number of refresh_stats() runs so far
    manual,             \* number of action_refresh() runs so far
    cpu_history,        \* OverviewPanel.cpu_history
    ram_history,        \* OverviewPanel.ram_history
    upload_history,     \* NetworkPanel.upload_history
    download_history,   \* NetworkPanel.download_history
    crons_at,           \* when get_crons() last ran, -1 before the first run
    \* SpecSessions
    snapshot,           \* the sessions.json file
    sessions_view,      \* what the sessions panel shows
    \* SpecLogs
    files,              \* the *.jsonl files of SESS_DIR
    now,                \* the wall clock, in minutes
    usage,              \* the result of the last get_usage_5h()
    costs               \* the result of the last get_costs()

quantVars == <<sl_args, sl_result, bar_args, bar_result>>
timerVars == <<clock, due, calls, manual, cpu_history, ram_history,
               upload_history, download_history, crons_at>>
sessionVars == <<snapshot, sessions_view>>
logVars == <<files, now, usage, costs>>
vars == <<quantVars, timerVars, sessionVars, logVars>>

\* The value of a result variable before the first call.
None == [state |-> "none"]

Min(a, b) == IF a <= b THEN a ELSE b
Max(a, b) == IF a >= b THEN a ELSE b

\* Python's int() of the quotient a / b, b > 0: truncation toward zero.
Trunc(a, b) == IF a >= 0 THEN a \div b ELSE -((-a) \div b)

\* All sequences over S of length at most n.
SeqUpTo(S, n) == UNION {[1..k -> S] : k \in 0..n}

\* Python's values[-n:] for n >= 0.  -0 is 0, so values[-0:] is values[0:],
\* the whole list.
SliceLast(values, n) ==
    IF n = 0 \/ n >= Len(values) THEN values
    ELSE SubSeq(values, Len(values) - n + 1, Len(values))

(***************************************************************************)
(* Idle values: what a specification gives the variables it does not own.  *)
(***************************************************************************)
QuantIdle ==
    /\ sl_args = None /\ sl_result = None
    /\ bar_args = None /\ bar_result = None
TimerIdle ==
    /\ clock = 0 /\ due = None /\ calls = None /\ manual = 0
    /\ cpu_history = <<>> /\ ram_history = <<>>
    /\ upload_history = <<>> /\ download_history = <<>>
    /\ crons_at = -1
SessionIdle == snapshot = None /\ sessions_view = None
LogIdle == files = <<>> /\ now = 0 /\ usage = None /\ costs = None

(***************************************************************************)
(* make_bar and make_sparkline                                             *)
(***************************************************************************)
MaxLen == 3             \* longest values list tried
MaxWidth == 4           \* widest sparkline tried

\* Sample values: below -max_cap, negative, zero, mid-range, the default cap,
\* above it, and 876, which is 87.6% of the larger cap.
SampleValues == {-150, -50, 0, 50, 100, 137, 876}
DefaultMaxCap == 100
\* The scales tried: the default (CPU, RAM: percent) and a larger one, as the
\* network panel passes (the largest rate of its history).
MaxCaps == {DefaultMaxCap, 10 * DefaultMaxCap}

AsciiRamp == <<"_", ".", "o", "O", "0", "8", "@", "#">>
UnicodeRamp == <<"U+2581", "U+2582", "U+2583", "U+2584",
                 "U+2585", "U+2586", "U+2587", "U+2588">>
Ramp(ascii_mode) == IF ascii_mode THEN AsciiRamp ELSE UnicodeRamp

\* min(v / max_cap, 1.0) as the fraction <<numerator, denominator>>, max_cap > 0.
Normalized(v, max_cap) == IF v >= max_cap THEN <<1, 1>> ELSE <<v, max_cap>>

\* min(int(v * 7.99), 7) for the fraction v.
GlyphIndex(v) == Min(Trunc(v[1] * 799, v[2] * 100), 7)

\* chars[idx] with Python's indexing of an 8-character string: a negative index
\* counts from the end, an index outside -8..7 raises IndexError ("raise").
CharAt(chars, idx) ==
    IF idx \in 0..7 THEN chars[idx + 1]
    ELSE IF idx \in -8..-1 THEN chars[8 + idx + 1]
    ELSE "raise"

Repeat(c, n) == [i \in 1..n |-> c]

\* The result is [raised, cells]: cells are the symbols of the returned Text.
MakeSparkline(values, width, max_cap, ascii_mode) ==
    IF values = <<>>
    THEN [state |-> "done", raised |-> FALSE,
          cells |-> Repeat(Ramp(ascii_mode)[1], width)]
    ELSE
      LET chars == Ramp(ascii_mode)
          recent == SliceLast(values, width)
          normalized == [i \in 1..Len(recent) |-> Normalized(recent[i], max_cap)]
          padded == IF Len(normalized) < width
                    THEN Repeat(<<0, 1>>, width - Len(normalized)) \o normalized
                    ELSE normalized
          cells == [i \in 1..Len(padded) |-> CharAt(chars, GlyphIndex(padded[i]))]
      IN IF \E i \in 1..Len(cells) : cells[i] = "raise"
         THEN [state |-> "done", raised |-> TRUE, cells |-> <<>>]
         ELSE [state |-> "done", raised |-> FALSE, cells |-> cells]

SparklineArgs ==
    [values : SeqUpTo(SampleValues, MaxLen), width : 0..MaxWidth,
     max_cap : MaxCaps, ascii_mode : BOOLEAN]

\* Percentages in tenths of a percent: -50%, -5%, 0, 49.9%, 50%, 80%, 100%, 137%.
SamplePercents == {-500, -50, 0, 499, 500, 800, 1000, 1370}

\* get_color(percent), percent in tenths.
GetColor(percent) ==
    IF percent < 500 THEN "green" ELSE IF percent < 800 THEN "yellow" ELSE "red"

\* make_bar(percent, width), percent in tenths of a percent.  filled is
\* int(width * min(percent, 100) / 100); a string times a negative count is
\* the empty string.  cells are the symbols appended before the label.
MakeBar(percent, width) ==
    LET filled == Trunc(width * Min(percent, 1000), 1000)
        empty == width - filled
    IN [state |-> "done", filled |-> filled, color |-> GetColor(percent),
        cells |-> Repeat("full", filled) \o Repeat("empty", empty)]

BarArgs == [percent : SamplePercents, width : 0..MaxWidth]

\* One call of one of the two functions, with arbitrary arguments.
QuantInit ==
    /\ \/ sl_args \in SparklineArgs /\ bar_args = None
       \/ sl_args = None /\ bar_args \in BarArgs
    /\ sl_result = None /\ bar_result = None
    /\ TimerIdle /\ SessionIdle /\ LogIdle

CallSparkline ==
    /\ sl_args # None /\ sl_result = None
    /\ sl_result' = MakeSparkline(sl_args.values, sl_args.width,
                                  sl_args.max_cap, sl_args.ascii_mode)
    /\ UNCHANGED <<sl_args, bar_args, bar_result, timerVars, sessionVars, logVars>>

CallBar ==
    /\ bar_args # None /\ bar_result = None
    /\ bar_result' = MakeBar(bar_args.percent, bar_args.width)
    /\ UNCHANGED <<bar_args, sl_args, sl_result, timerVars, sessionVars, logVars>>

QuantNext == CallSparkline \/ CallBar

SpecQuant == QuantInit /\ [][QuantNext]_vars

\* C10: make_sparkline returns exactly width symbols, and for a non-empty
\* values list and width >= 1 the rightmost symbol is the glyph of the last
\* element of values.
C10_WidthAndNewest ==
    sl_result.state = "done" =>
        /\ ~sl_result.raised
        /\ Len(sl_result.cells) = sl_args.width
        /\ (sl_args.values # <<>> /\ sl_args.width >= 1) =>
              sl_result.cells[sl_args.width] =
                  CharAt(Ramp(sl_args.ascii_mode),
                         GlyphIndex(Normalized(sl_args.values[Len(sl_args.values)],
                                               sl_args.max_cap)))

\* The glyph level C11 states for the value v on the scale max_cap:
\* floor(7.999 * n), n being v / max_cap clamped to [0, 1].
ClaimedLevel(v, max_cap) ==
    IF v <= 0 THEN 0
    ELSE IF v >= max_cap THEN 7
    ELSE (v * 7999) \div (max_cap * 1000)

\* C11: every value v drawn by make_sparkline, negative values and values
\* above max_cap included, is shown by the glyph of level
\* floor(7.999 * clamp(v / max_cap, 0, 1)); that level lies in 0..7, is 0 for
\* every v <= 0 and never decreases when v increases.
C11_LevelClampedMonotone ==
    (sl_result.state = "done" /\ sl_args.values # <<>> /\ sl_args.width >= 1) =>
        LET n == Len(sl_args.values)
            k == Min(sl_args.width, n)
            ramp == Ramp(sl_args.ascii_mode)
        IN /\ ~sl_result.raised
           /\ Len(sl_result.cells) = sl_args.width
           /\ \A j \in 1..k :
                 sl_result.cells[sl_args.width - k + j] =
                     ramp[ClaimedLevel(sl_args.values[n - k + j], sl_args.max_cap) + 1]

\* C12: make_bar draws exactly width cells; the first
\* floor(width * min(percent, 100) / 100) of them are filled, none when
\* percent is negative, and the remaining ones are empty.
C12_BarCells ==
    bar_result.state = "done" =>
        LET filled == IF bar_args.percent < 0 THEN 0
                      ELSE (bar_args.width * Min(bar_args.percent, 1000)) \div 1000
        IN /\ Len(bar_result.cells) = bar_args.width
           /\ \A i \in 1..Len(bar_result.cells) :
                 bar_result.cells[i] = IF i <= filled THEN "full" ELSE "empty"

(***************************************************************************)
(* The panels' timers, the manual refresh and the history buffers          *)
(***************************************************************************)
MaxClock == 124         \* the timers are followed for this many seconds
MaxManual == 2          \* at most this many presses of the refresh key

\* The panels in the order compose() yields them.
Panels == <<"OverviewPanel", "UsagePanel", "CostsPanel", "SessionsPanel",
            "CronsPanel", "TopProcessesPanel", "NetworkPanel", "LiveFeedPanel">>
PanelSet == {Panels[i] : i \in 1..Len(Panels)}

IntervalCronsTen(p) ==
    CASE p = "SessionsPanel" -> 10
      [] p = "CronsPanel" -> 10
      [] p = "LiveFeedPanel" -> 5
      [] OTHER -> 2

\* The period each panel's on_mount gives set_interval, in seconds.
Interval(p) ==
    CASE p = "SessionsPanel" -> 10
      [] p = "CronsPanel" -> 30
      [] p = "LiveFeedPanel" -> 5
      [] OTHER -> 2

max_history == 60

PushKeepOldest(history, value) ==
    LET h == Append(history, value)
    IN IF Len(h) > max_history THEN SubSeq(h, 1, max_history) ELSE h

\* history.append(value), then the cut to the last max_history values.
Push(history, value) ==
    LET h == Append(history, value)
    IN IF Len(h) > max_history THEN SliceLast(h, max_history) ELSE h

\* What one render_stats() of each panel in ps leaves in the panels' own state.
\* The k-th reading of a metric is written k, so readings stay distinguishable.
RenderStats(ps) ==
    /\ calls' = [p \in PanelSet |-> IF p \in ps THEN calls[p] + 1 ELSE calls[p]]
    /\ IF "OverviewPanel" \in ps
       THEN /\ cpu_history' = Push(cpu_history, calls["OverviewPanel"] + 1)
            /\ ram_history' = Push(ram_history, calls["OverviewPanel"] + 1)
       ELSE UNCHANGED <<cpu_history, ram_history>>
    /\ IF "NetworkPanel" \in ps
       THEN /\ upload_history' = Push(upload_history, calls["NetworkPanel"] + 1)
            /\ download_history' = Push(download_history, calls["NetworkPanel"] + 1)
       ELSE UNCHANGED <<upload_history, download_history>>
    /\ crons_at' = IF "CronsPanel" \in ps THEN clock ELSE crons_at

\* on_mount of every panel: the buffers start empty and set_interval arms the
\* timer, which fires first one period after the mount.
TimerInit ==
    /\ clock = 0
    /\ due = [p \in PanelSet |-> Interval(p)]
    /\ calls = [p \in PanelSet |-> 0]
    /\ manual = 0
    /\ cpu_history = <<>> /\ ram_history = <<>>
    /\ upload_history = <<>> /\ download_history = <<>>
    /\ crons_at = -1
    /\ QuantIdle /\ SessionIdle /\ LogIdle

IsDue(p) == due[p] = clock

\* A panel's timer fires and runs refresh_stats.  Timers due at the same
\* instant run in mount order.
TimerFire ==
    \E i \in 1..Len(Panels) :
        /\ IsDue(Panels[i])
        /\ \A j \in 1..(i - 1) : ~IsDue(Panels[j])
        /\ due' = [due EXCEPT ![Panels[i]] = clock + Interval(Panels[i])]
        /\ RenderStats({Panels[i]})
        /\ UNCHANGED <<clock, manual, quantVars, sessionVars, logVars>>

\* Time passes until the next timer is due.
AdvanceClock ==
    /\ \A p \in PanelSet : ~IsDue(p)
    /\ \E t \in (clock + 1)..MaxClock :
          /\ \E p \in PanelSet : due[p] = t
          /\ \A p \in PanelSet : due[p] >= t
          /\ clock' = t
    /\ UNCHANGED <<due, calls, manual, cpu_history, ram_history, upload_history,
                   download_history, crons_at, quantVars, sessionVars, logVars>>

\* action_refresh: the "r" key runs refresh_stats of every panel at once.
ActionRefresh ==
    /\ manual < MaxManual
    /\ manual' = manual + 1
    /\ RenderStats(PanelSet)
    /\ UNCHANGED <<clock, due, quantVars, sessionVars, logVars>>

TimerNext == TimerFire \/ AdvanceClock \/ ActionRefresh

SpecTimers == TimerInit /\ [][TimerNext]_vars

\* The last Min(n, max_history) of the readings 1..n, oldest first.
LatestReadings(n) ==
    [i \in 1..Min(n, max_history) |-> n - Min(n, max_history) + i]

\* C9: each history buffer holds at most max_history values, and they are the
\* most recent min(n, max_history) of the n values pushed, oldest first.
C9_HistoryIsLatest ==
    /\ Len(cpu_history) <= max_history /\ Len(ram_history) <= max_history
    /\ Len(upload_history) <= max_history /\ Len(download_history) <= max_history
    /\ cpu_history = LatestReadings(calls["OverviewPanel"])
    /\ ram_history = LatestReadings(calls["OverviewPanel"])
    /\ upload_history = LatestReadings(calls["NetworkPanel"])
    /\ download_history = LatestReadings(calls["NetworkPanel"])

\* More than max_history readings were pushed, by timer ticks and by manual
\* refreshes, and the buffers are full.
C9_Witness ==
    /\ calls["OverviewPanel"] > max_history /\ calls["NetworkPanel"] > max_history
    /\ manual > 0
    /\ Len(cpu_history) = max_history /\ Len(download_history) = max_history

MaxEntries == 2         \* most entries sessions.json gets

Take(s, n) == SubSeq(s, 1, Min(n, Len(s)))

\* The first index >= 1 at which sub occurs in s, 0 if it does not.
IndexOf(s, sub) ==
    LET hits == {i \in 1..(Len(s) - Len(sub) + 1) :
                    SubSeq(s, i, i + Len(sub) - 1) = sub}
    IN IF hits = {} THEN 0 ELSE CHOOSE i \in hits : \A j \in hits : i <= j

\* sub in s
Contains(s, sub) == IndexOf(s, sub) # 0

\* s.split(sep)[1], for s that contains sep: what lies between the first
\* occurrence of sep and the next one (or the end).
SplitSecond(s, sep) ==
    LET i == IndexOf(s, sep)
        rest == SubSeq(s, i + Len(sep), Len(s))
        j == IndexOf(rest, sep)
    IN IF j = 0 THEN rest ELSE SubSeq(rest, 1, j - 1)

\* s.split(':')[-1]: what follows the last colon (all of s if it has none).
SplitLast(s) ==
    LET colons == {i \in 1..Len(s) : s[i] = ":"}
    IN IF colons = {} THEN s
       ELSE SubSeq(s, (CHOOSE i \in colons : \A j \in colons : i >= j) + 1, Len(s))

StrMainMain == <<":", "m", "a", "i", "n", ":", "m", "a", "i", "n">>
StrCronColon == <<"c", "r", "o", "n", ":">>
StrSubagent == <<"s", "u", "b", "a", "g", "e", "n", "t">>
StrMain == <<"m", "a", "i", "n">>
StrCronDash == <<"c", "r", "o", "n", "-">>
StrSubDash == <<"s", "u", "b", "-">>

\* s.get('label', default)
GetLabel(s, default) == IF s.label.has THEN s.label.text ELSE default

\* The friendly name get_sessions resolves for key and its metadata s.
ResolveLabel(key, s) ==
    IF Contains(key, StrMainMain) THEN StrMain
    ELSE IF Contains(key, StrCronColon)
         THEN GetLabel(s, StrCronDash \o Take(SplitSecond(key, StrCronColon), 8))
    ELSE IF Contains(key, StrSubagent)
         THEN StrSubDash \o Take(SplitLast(key), 8)
    ELSE GetLabel(s, Take(SplitLast(key), 12))

\* The label comes from s.get('label', ...) and the session has one stored.
UsesStoredLabel(key, s) ==
    /\ ~Contains(key, StrMainMain)
    /\ Contains(key, StrCronColon) \/ ~Contains(key, StrSubagent)
    /\ s.label.has

\* s.get('updatedAt', 0), s.get('totalTokens', 0).  The values are passed on
\* as stored; bad names the field of the entry, if any, whose value is not of
\* the expected type.
SessionEntry(e) ==
    [key |-> e.key, label |-> ResolveLabel(e.key, e.meta),
     tokens |-> e.meta.totalTokens, updated |-> e.meta.updatedAt,
     bad |-> IF e.meta.bad = "label" /\ ~UsesStoredLabel(e.key, e.meta)
             THEN "none" ELSE e.meta.bad]

RECURSIVE InsertBeforeTies(_, _)
\* An insertion that puts x before the elements with an equal key.
InsertBeforeTies(sorted, x) ==
    IF sorted = <<>> THEN <<x>>
    ELSE IF Head(sorted).updated > x.updated
         THEN <<Head(sorted)>> \o InsertBeforeTies(Tail(sorted), x)
         ELSE <<x>> \o sorted

\* list.sort(key=lambda x: x['updated'], reverse=True): a stable sort, equal
\* keys keep their order.  Inserts x after every element whose key is >= its own.
RECURSIVE InsertByUpdated(_, _)
InsertByUpdated(sorted, x) ==
    IF sorted = <<>> THEN <<x>>
    ELSE IF Head(sorted).updated >= x.updated
         THEN <<Head(sorted)>> \o InsertByUpdated(Tail(sorted), x)
         ELSE <<x>> \o sorted

RECURSIVE SortByUpdatedDesc(_)
SortByUpdatedDesc(list) ==
    IF list = <<>> THEN <<>>
    ELSE InsertByUpdated(SortByUpdatedDesc(SubSeq(list, 1, Len(list) - 1)),
                         list[Len(list)])

\* The sort compares a string with a number and raises TypeError: the list
\* holds an 'updated' that is a string and one that is a number.
SortRaises(list) ==
    \E i, j \in 1..Len(list) : list[i].bad = "updatedAt" /\ list[j].bad # "updatedAt"

\* get_sessions(): [] when the file is missing or cannot be parsed or the
\* sort raises, else one entry per key of the snapshot, in dict order, then
\* sorted.
GetSessions(snap) ==
    IF snap.state # "ok" THEN <<>>
    ELSE LET list == [i \in 1..Len(snap.entries) |-> SessionEntry(snap.entries[i])]
         IN IF SortRaises(list) THEN <<>> ELSE SortByUpdatedDesc(list)

\* Drawing the row of s raises TypeError: format_ago subtracts a string
\* 'updated' from a number, format_tokens compares a null 'tokens' with a
\* number, or a label that is a number is sliced.
RowRaises(s) == s.bad \in {"updatedAt", "totalTokens", "label"}

\* SessionsPanel.render_stats(): the first 12 sessions, each label cut to 15
\* characters; no rows stands for the "No sessions" line.  Nothing catches
\* what the loop raises: the state is then "raised".
RenderSessions(sessions) ==
    LET shown == Take(sessions, 12)
    IN IF \E i \in 1..Len(shown) : RowRaises(shown[i])
       THEN [state |-> "raised", sessions |-> sessions, rows |-> <<>>]
       ELSE [state |-> "shown",
             sessions |-> sessions,
             rows |-> [i \in 1..Len(shown) |->
                          [label |-> Take(shown[i].label, 15),
                           tokens |-> shown[i].tokens,
                           updated |-> shown[i].updated]]]

\* One refresh of the panel on the snapshot snap; scanned records the
\* snapshot the data function read.
SessionsPanelRender(snap) ==
    LET r == RenderSessions(GetSessions(snap))
    IN [state |-> r.state, sessions |-> r.sessions, rows |-> r.rows,
        scanned |-> snap]

\* Session keys: the main session and a thread of it, two cron jobs whose ids
\* share their first 8 characters, a sub-agent, a chat session with a long
\* trailing segment, and a key that matches the main and the cron pattern.
SessionKeys ==
    { <<"a", ":", "m", "a", "i", "n", ":", "m", "a", "i", "n">>,
      <<"a", ":", "m", "a", "i", "n", ":", "m", "a", "i", "n", ":", "t">>,
      <<"a", ":", "c", "r", "o", "n", ":", "j", "o", "b", "0", "1", "2", "3", "4", "5">>,
      <<"a", ":", "c", "r", "o", "n", ":", "j", "o", "b", "0", "1", "2", "3", "4", "6">>,
      <<"a", ":", "s", "u", "b", "a", "g", "e", "n", "t", ":", "u", "0", "1", "2", "3", "4", "5", "6", "7">>,
      <<"a", ":", "t", "g", ":", "c", "h", "a", "t", "0", "1", "2", "3", "4", "5", "6", "7", "8">>,
      <<"a", ":", "m", "a", "i", "n", ":", "m", "a", "i", "n", ":", "c", "r", "o", "n", ":", "x">> }

StoredLabels == {[has |-> FALSE], [has |-> TRUE, text |-> <<"w", "o", "r", "k">>]}
UpdatedAts == {100, 200}
SessionMetas ==
    [label : StoredLabels, updatedAt : UpdatedAts, totalTokens : {1500},
     bad : {"none"}]

\* Metadata with one field of an unexpected type, named by bad: a label that
\* is a number, an updatedAt that is a string, a totalTokens that is null.
\* The value listed for that field only stands in for it.
IllTypedMetas ==
    {[label |-> [has |-> TRUE, text |-> <<"7">>], updatedAt |-> 100,
      totalTokens |-> 1500, bad |-> b] : b \in {"label", "updatedAt", "totalTokens"}}

\* The entries the runtime may write: every key with well-typed metadata, and
\* the chat session with ill-typed metadata.
ChatKey == <<"a", ":", "t", "g", ":", "c", "h", "a", "t", "0", "1", "2", "3", "4", "5", "6", "7", "8">>
SessionWrites ==
    {[key |-> key, meta |-> meta] : key \in SessionKeys, meta \in SessionMetas}
        \cup {[key |-> ChatKey, meta |-> meta] : meta \in IllTypedMetas}

SessionInit ==
    /\ snapshot = [state |-> "missing", entries |-> <<>>]
    /\ sessions_view = None
    /\ QuantIdle /\ TimerIdle /\ LogIdle

\* The runtime registers a session: a new key is added to sessions.json,
\* which is created if it did not exist.
AddSession ==
    /\ snapshot.state # "corrupt"
    /\ Len(snapshot.entries) < MaxEntries
    /\ \E w \in SessionWrites :
          /\ \A i \in 1..Len(snapshot.entries) : snapshot.entries[i].key # w.key
          /\ snapshot' = [state |-> "ok", entries |-> Append(snapshot.entries, w)]
    /\ UNCHANGED <<sessions_view, quantVars, timerVars, logVars>>

\* sessions.json is caught half-written (or is otherwise not valid JSON):
\* json.loads raises and get_sessions' except branch returns [].
BreakSnapshot ==
    /\ snapshot.state = "ok"
    /\ snapshot' = [snapshot EXCEPT !.state = "corrupt"]
    /\ UNCHANGED <<sessions_view, quantVars, timerVars, logVars>>

\* The write completes: the file parses again.
RestoreSnapshot ==
    /\ snapshot.state = "corrupt"
    /\ snapshot' = [snapshot EXCEPT !.state = "ok"]
    /\ UNCHANGED <<sessions_view, quantVars, timerVars, logVars>>

\* SessionsPanel.refresh_stats(), by its timer or by action_refresh.  An
\* exception that leaves render_stats ends the application: no refresh
\* follows it.
SessionsRefresh ==
    /\ sessions_view.state # "raised"
    /\ sessions_view' = SessionsPanelRender(snapshot)
    /\ UNCHANGED <<snapshot, quantVars, timerVars, logVars>>

SessionNext == AddSession \/ BreakSnapshot \/ RestoreSnapshot \/ SessionsRefresh

SpecSessions == SessionInit /\ [][SessionNext]_vars

\* C5: a refresh that fails (here: sessions.json does not parse) leaves the
\* non-empty value the panel showed before in place.
C5_FailedRefreshKeepsLastGood ==
    [][(/\ snapshot.state = "corrupt"
        /\ sessions_view.state = "shown"
        /\ sessions_view.rows # <<>>) => sessions_view' = sessions_view]_vars

\* C7: the list get_sessions returns has no two entries with the same label.
C7_NoDuplicateLabels ==
    sessions_view.state = "shown" =>
        \A i, j \in 1..Len(sessions_view.sessions) :
            sessions_view.sessions[i].label = sessions_view.sessions[j].label => i = j

\* The label by the priority order C8 states: 'main'; else for a cron key the
\* stored label, else the derived cron name; else for a sub-agent key the
\* stored label, else the derived short name; else the stored label, else the
\* trailing key segment, truncated.
ClaimedLabel(key, s) ==
    IF Contains(key, StrMainMain) THEN StrMain
    ELSE IF Contains(key, StrCronColon)
         THEN (IF s.label.has THEN s.label.text
               ELSE StrCronDash \o Take(SplitSecond(key, StrCronColon), 8))
    ELSE IF Contains(key, StrSubagent)
         THEN (IF s.label.has THEN s.label.text
               ELSE StrSubDash \o Take(SplitLast(key), 8))
    ELSE (IF s.label.has THEN s.label.text ELSE Take(SplitLast(key), 12))

\* C8: every entry get_sessions returns carries the label of that priority order.
C8_LabelPriority ==
    sessions_view.state = "shown" =>
        \A i \in 1..Len(sessions_view.sessions) :
            \A k \in 1..Len(snapshot.entries) :
                snapshot.entries[k].key = sessions_view.sessions[i].key =>
                    sessions_view.sessions[i].label =
                        ClaimedLabel(snapshot.entries[k].key, snapshot.entries[k].meta)

\* C15: whatever the snapshot holds, fields of an unexpected type included,
\* the refresh of the panel (get_sessions, then render_stats) completes
\* without raising.
C15_RefreshNeverRaises == sessions_view.state # "raised"

\* The position of key in the snapshot snap.
PosIn(snap, key) ==
    CHOOSE k \in 1..Len(snap.entries) : snap.entries[k].key = key

\* C16: the list get_sessions returns is in descending order of updatedAt,
\* and entries with equal updatedAt are in the order they have in the snapshot.
C16_SortedStable ==
    sessions_view.state \in {"shown", "raised"} =>
        LET list == sessions_view.sessions
        IN \A i, j \in 1..Len(list) :
              i < j =>
                 /\ list[i].updated >= list[j].updated
                 /\ list[i].updated = list[j].updated =>
                        PosIn(sessions_view.scanned, list[i].key)
                            < PosIn(sessions_view.scanned, list[j].key)

\* get_sessions has returned two entries with the same updatedAt, in the
\* order they have in the snapshot.
C16_Witness ==
    /\ sessions_view.state = "shown"
    /\ Len(sessions_view.sessions) = 2
    /\ sessions_view.sessions[1].updated = sessions_view.sessions[2].updated
    /\ sessions_view.sessions[1].key = sessions_view.scanned.entries[1].key
    /\ sessions_view.sessions[2].key = sessions_view.scanned.entries[2].key

(***************************************************************************)
(* The session logs, get_usage_5h and get_costs                            *)
(*                                                                         *)
(* A log line is a record                                                  *)
(*   kind    "message", "other" (another type), "corrupt" (text that       *)
(*           json.loads rejects) or "undecodable" (bytes that are not      *)
(*           UTF-8, for which f.read_text() itself raises)                 *)
(*   ts      the 'timestamp' field: state "absent" (no field, or ''),      *)
(*           "bad" (a string fromisoformat rejects) or "ok"; at is the     *)
(*           instant an "ok" string encodes, day the calendar day its      *)
(*           first 10 characters spell                                     *)
(*   model   message.model, as its '/'-separated segments                  *)
(*   shape   "ok"; "usage_null" (message.usage is null, so usage.get       *)
(*           raises); "bad_output" (usage.output is a string, so adding    *)
(*           it to a number raises)                                        *)
(*   input, output, cost   the numbers of message.usage; cost in cents     *)
(* A place <<f, i>> names line i of file f.                                *)
(***************************************************************************)
MaxLines == 2           \* most log lines written in all

five_hours == 300       \* 5 * 3600 * 1000 ms, in minutes
thirty_min == 30        \* 30 * 60 * 1000 ms, in minutes
min_span == 1           \* 60000 ms, in minutes
opus_limit == 88000
sonnet_limit == 220000

\* The instants the clock is read at.  Between them lie 30 minutes (the burn
\* window), 5 hours (the usage window) and 5 h 30 min.
Instants == {0, 30, 330}

\* How far ahead of the reader's clock a writer's clock may run, in minutes.
Skew == 60

\* The files SESS_DIR.glob('*.jsonl') may list, in the order it lists them.
LogFileSeq == <<"s1.jsonl", "s2.jsonl">>
LogFiles == {LogFileSeq[i] : i \in 1..Len(LogFileSeq)}

\* The calendar day of an instant: the date its ISO string starts with.
DayOf(t) == 10 + (t \div 1440)
\* The key d.get('timestamp', '')[:10] gives a line without timestamp: the
\* empty string, which sorts below every date.
EmptyDay == -1

ModelOpus == <<"anthropic", "claude-opus-4">>
ModelSonnet == <<"claude-sonnet-4">>
ModelMirror == <<"openclaw", "delivery-mirror">>

\* model.split('/')[-1]
ModelName(model) == model[Len(model)]
\* 'delivery-mirror' in model
IsMirror(name) == name = "delivery-mirror"
\* 'opus' in k.lower(), 'sonnet' in k.lower()
IsOpus(name) == name = "claude-opus-4"
IsSonnet(name) == name = "claude-sonnet-4"

OkTs(t) == [state |-> "ok", at |-> t, day |-> DayOf(t)]
Message(ts, model, shape, output, cost) ==
    [kind |-> "message", ts |-> ts, model |-> model, shape |-> shape,
     input |-> 10, output |-> output, cost |-> cost]
NotAMessage(kind) ==
    [kind |-> kind, ts |-> [state |-> "absent", at |-> 0, day |-> EmptyDay],
     model |-> ModelOpus, shape |-> "ok", input |-> 0, output |-> 0, cost |-> 0]

\* The lines a writer may append at instant w.
LinesAt(w) ==
    { NotAMessage("corrupt"),
      NotAMessage("undecodable"),
      NotAMessage("other"),
      Message(OkTs(w), ModelOpus, "ok", 100, 2),
      Message(OkTs(w), ModelSonnet, "ok", 0, 0),
      Message(OkTs(w + Skew), ModelSonnet, "ok", 100, 2),
      Message([state |-> "absent", at |-> 0, day |-> EmptyDay], ModelOpus, "ok", 100, 2),
      Message([state |-> "bad", at |-> 0, day |-> DayOf(w)], ModelOpus, "ok", 100, 2),
      Message(OkTs(w), ModelMirror, "ok", 100, 2),
      Message(OkTs(w), ModelOpus, "usage_null", 0, 0),
      Message(OkTs(w), ModelOpus, "bad_output", 0, 2) }

RECURSIVE SumSeq(_, _)
\* sum(r[field] for r in list)
SumSeq(list, field) ==
    IF list = <<>> THEN 0 ELSE Head(list)[field] + SumSeq(Tail(list), field)

RECURSIVE SumDict(_, _)
\* the sum of f[k] over the keys k in keys
SumDict(f, keys) ==
    IF keys = {} THEN 0
    ELSE LET k == CHOOSE x \in keys : TRUE IN f[k] + SumDict(f, keys \ {k})

EmptyDict == [k \in {} |-> 0]
\* d[k] = v
DictSet(d, k, v) == [x \in DOMAIN d \cup {k} |-> IF x = k THEN v ELSE d[x]]
\* d.get(k, 0)
DictGet(d, k) == IF k \in DOMAIN d THEN d[k] ELSE 0

(*------------------------------ get_usage_5h ----------------------------*)
NewBucket == [input |-> 0, output |-> 0, cost |-> 0, calls |-> 0]
UsageStart ==
    [per_model |-> EmptyDict, total_cost |-> 0, total_calls |-> 0,
     recent |-> <<>>, touched |-> {}]

\* now - ts > five_hours_ms: the line is older than the window.
TooOld(t, ts) == t - ts > five_hours

\* One pass of the line loop's body for the line rec at place, at reference
\* time t.  touched collects the places of the lines that changed any
\* accumulator; recent carries the place of each sample as src.
UsageLine(acc, rec, place, t) ==
    IF rec.kind # "message" THEN acc
    ELSE IF rec.ts.state # "ok" THEN acc
    ELSE IF TooOld(t, rec.ts.at) THEN acc
    ELSE IF IsMirror(ModelName(rec.model)) THEN acc
    ELSE IF rec.shape = "usage_null" THEN acc
    ELSE
      LET model == ModelName(rec.model)
          bucket == IF model \in DOMAIN acc.per_model
                    THEN acc.per_model[model] ELSE NewBucket
          withInput == [bucket EXCEPT !.input = @ + rec.input]
          whole == [withInput EXCEPT !.output = @ + rec.output,
                                     !.cost = @ + rec.cost,
                                     !.calls = @ + 1]
      IN IF rec.shape = "bad_output"
         THEN [acc EXCEPT !.per_model = DictSet(@, model, withInput),
                          !.touched = @ \cup {place}]
         ELSE [acc EXCEPT !.per_model = DictSet(@, model, whole),
                          !.total_cost = @ + rec.cost,
                          !.total_calls = @ + 1,
                          !.recent = Append(@, [ts |-> rec.ts.at,
                                                output |-> rec.output,
                                                cost |-> rec.cost,
                                                src |-> place]),
                          !.touched = @ \cup {place}]

RECURSIVE UsageLines(_, _, _, _, _)
\* The line loop over lines[i..] of file f.
UsageLines(acc, f, lines, i, t) ==
    IF i > Len(lines) THEN acc
    ELSE UsageLines(UsageLine(acc, lines[i], <<f, i>>, t), f, lines, i + 1, t)

\* f.read_text() returns: the file may be read and all of it decodes.
CanReadText(file) ==
    /\ file.readable
    /\ \A i \in 1..Len(file.lines) : file.lines[i].kind # "undecodable"

NeverStale(file, t) == FALSE

\* f.stat().st_mtime * 1000 < now - five_hours_ms: the file is skipped.
StaleFile(file, t) == file.mtime < t - five_hours

RECURSIVE UsageFiles(_, _, _, _)
\* The file loop over the files LogFileSeq[k..].
UsageFiles(acc, fs, k, t) ==
    IF k > Len(LogFileSeq) THEN acc
    ELSE LET f == LogFileSeq[k]
         IN IF ~fs[f].exists \/ StaleFile(fs[f], t) \/ ~CanReadText(fs[f])
            THEN UsageFiles(acc, fs, k + 1, t)
            ELSE UsageFiles(UsageLines(acc, f, fs[f].lines, 1, t), fs, k + 1, t)

\* The earliest timestamp of a non-empty sample list.
MinTs(list) == CHOOSE x \in {list[i].ts : i \in 1..Len(list)} :
                   \A i \in 1..Len(list) : x <= list[i].ts

\* get_usage_5h() at reference time t.  Rates and percentages are fractions
\* <<numerator, denominator>> with a positive denominator.  at, scanned,
\* recent and touched are not part of the returned dict: they record the
\* pass (its reference time, the files it read, its sample list).
GetUsage5h(fs, t) ==
    LET acc == UsageFiles(UsageStart, fs, 1, t)
        InLast30(r) == r.ts >= t - thirty_min
        recent_30 == SelectSeq(acc.recent, InLast30)
        span == IF recent_30 = <<>> THEN min_span
                ELSE Max(t - MinTs(recent_30), min_span)
        models == DOMAIN acc.per_model
        out == [m \in models |-> acc.per_model[m].output]
        opus_out == SumDict(out, {m \in models : IsOpus(m)})
        sonnet_out == SumDict(out, {m \in models : IsSonnet(m)})
    IN [state |-> "ok",
        per_model |-> acc.per_model,
        total_cost |-> acc.total_cost,
        total_calls |-> acc.total_calls,
        burn_tokens_per_min |-> IF recent_30 = <<>> THEN <<0, 1>>
                                ELSE <<SumSeq(recent_30, "output"), span>>,
        burn_cost_per_min |-> IF recent_30 = <<>> THEN <<0, 1>>
                              ELSE <<SumSeq(recent_30, "cost"), span>>,
        opus_out |-> opus_out,
        opus_pct |-> <<opus_out * 100, opus_limit>>,
        sonnet_out |-> sonnet_out,
        sonnet_pct |-> <<sonnet_out * 100, sonnet_limit>>,
        at |-> t, scanned |-> fs,
        recent |-> acc.recent, touched |-> acc.touched]

(*-------------------------------- get_costs -----------------------------*)
CostsStart == [per_day |-> EmptyDict, per_model |-> <<>>, total |-> 0, touched |-> {}]

\* d.get('timestamp', '')[:10]
DayKey(ts) == IF ts.state = "absent" THEN EmptyDay ELSE ts.day

\* per_model[model] = per_model.get(model, 0) + cost, on a dict kept as the
\* sequence of its items in insertion order.
AddToItems(items, key, cost) ==
    IF \E i \in 1..Len(items) : items[i].key = key
    THEN [i \in 1..Len(items) |->
             IF items[i].key = key
             THEN [key |-> key, cost |-> items[i].cost + cost] ELSE items[i]]
    ELSE Append(items, [key |-> key, cost |-> cost])

\* One pass of get_costs' line loop body.
CostsLine(acc, rec, place) ==
    IF rec.kind # "message" THEN acc
    ELSE IF rec.shape = "usage_null" THEN acc
    ELSE IF rec.cost <= 0 THEN acc
    ELSE IF IsMirror(ModelName(rec.model)) THEN acc
    ELSE [acc EXCEPT
            !.per_model = AddToItems(@, ModelName(rec.model), rec.cost),
            !.per_day = DictSet(@, DayKey(rec.ts), DictGet(@, DayKey(rec.ts)) + rec.cost),
            !.total = @ + rec.cost,
            !.touched = @ \cup {place}]

RECURSIVE CostsLines(_, _, _, _)
CostsLines(acc, f, lines, i) ==
    IF i > Len(lines) THEN acc
    ELSE CostsLines(CostsLine(acc, lines[i], <<f, i>>), f, lines, i + 1)

RECURSIVE CostsFiles(_, _, _)
CostsFiles(acc, fs, k) ==
    IF k > Len(LogFileSeq) THEN acc
    ELSE LET f == LogFileSeq[k]
         IN IF ~fs[f].exists \/ ~CanReadText(fs[f])
            THEN CostsFiles(acc, fs, k + 1)
            ELSE CostsFiles(CostsLines(acc, f, fs[f].lines, 1), fs, k + 1)

RECURSIVE InsertByCost(_, _)
\* sorted(per_model.items(), key=lambda x: -x[1]): stable, largest cost first.
InsertByCost(sorted, x) ==
    IF sorted = <<>> THEN <<x>>
    ELSE IF Head(sorted).cost >= x.cost
         THEN <<Head(sorted)>> \o InsertByCost(Tail(sorted), x)
         ELSE <<x>> \o sorted

RECURSIVE SortByCostDesc(_)
SortByCostDesc(items) ==
    IF items = <<>> THEN <<>>
    ELSE InsertByCost(SortByCostDesc(SubSeq(items, 1, Len(items) - 1)),
                      items[Len(items)])

\* dict(sorted(per_day.items(), reverse=True)[:7]): the 7 largest day keys.
LatestDays(per_day, n) ==
    LET keep == {d \in DOMAIN per_day :
                    Cardinality({e \in DOMAIN per_day : e > d}) < n}
    IN [d \in keep |-> per_day[d]]

\* get_costs() at time t.  at, scanned and touched record the pass.
GetCosts(fs, t) ==
    LET acc == CostsFiles(CostsStart, fs, 1)
        today == DayOf(t)
        week_ago == DayOf(t) - 7
    IN [state |-> "ok",
        total |-> acc.total,
        today |-> DictGet(acc.per_day, today),
        week |-> SumDict(acc.per_day, {d \in DOMAIN acc.per_day : d >= week_ago}),
        per_model |-> Take(SortByCostDesc(acc.per_model), 5),
        per_day |-> LatestDays(acc.per_day, 7),
        at |-> t, scanned |-> fs, touched |-> acc.touched]

(*------------------------------- the actions ----------------------------*)
LinesWritten == SumDict([f \in LogFiles |-> Len(files[f].lines)], LogFiles)

LogInit ==
    /\ files = [f \in LogFiles |->
                   [exists |-> FALSE, readable |-> TRUE, mtime |-> 0, lines |-> <<>>]]
    /\ now = 0
    /\ usage = None
    /\ costs = None
    /\ QuantIdle /\ TimerIdle /\ SessionIdle

\* Both panels have refreshed since the logs or the clock last changed.  The
\* panels refresh every 2 seconds and the instants modelled lie at least 30
\* minutes apart, so the logs and the clock change only between refreshes
\* that have seen the current state.
UsageUpToDate == usage.state = "ok" /\ usage.at = now /\ usage.scanned = files
CostsUpToDate == costs.state = "ok" /\ costs.at = now /\ costs.scanned = files
PanelsUpToDate == UsageUpToDate /\ CostsUpToDate

\* A session writes a line to its log (creating the file with the first one);
\* the file's mtime becomes the time of the write.
AppendLine ==
    /\ PanelsUpToDate
    /\ LinesWritten < MaxLines
    /\ \E f \in LogFiles, rec \in LinesAt(now) :
          files' = [files EXCEPT ![f] = [exists |-> TRUE, readable |-> @.readable,
                                         mtime |-> now,
                                         lines |-> Append(@.lines, rec)]]
    /\ UNCHANGED <<now, usage, costs, quantVars, timerVars, sessionVars>>

\* A log file loses its read permission: f.read_text() raises from then on
\* and the scans skip the file.
RevokeRead ==
    /\ PanelsUpToDate
    /\ \E f \in LogFiles :
          /\ files[f].exists /\ files[f].readable
          /\ files' = [files EXCEPT ![f].readable = FALSE]
    /\ UNCHANGED <<now, usage, costs, quantVars, timerVars, sessionVars>>

\* Time passes.
Tick ==
    /\ PanelsUpToDate
    /\ \E t \in Instants : t > now /\ now' = t
    /\ UNCHANGED <<files, usage, costs, quantVars, timerVars, sessionVars>>

\* UsagePanel.refresh_stats()
UsageRefresh ==
    /\ usage' = GetUsage5h(files, now)
    /\ UNCHANGED <<files, now, costs, quantVars, timerVars, sessionVars>>

\* CostsPanel.refresh_stats().  Both panels run on 2-second timers set at
\* mount, which fire in mount order: UsagePanel first, then CostsPanel.
CostsRefresh ==
    /\ UsageUpToDate
    /\ costs' = GetCosts(files, now)
    /\ UNCHANGED <<files, now, usage, quantVars, timerVars, sessionVars>>

LogNext == AppendLine \/ RevokeRead \/ Tick \/ UsageRefresh \/ CostsRefresh

SpecLogs == LogInit /\ [][LogNext]_vars

(*----------------------------- the claims on logs -----------------------*)
\* The places of all lines of the logs fs.
Places(fs) == UNION {{<<f, i>> : i \in 1..Len(fs[f].lines)} : f \in LogFiles}
LineAt(fs, place) == fs[place[1]].lines[place[2]]

\* The places of the lines a pass counted: those with a burn-rate sample.
Counted(u) == {u.recent[i].src : i \in 1..Len(u.recent)}

\* C1: every line that contributed to per_model, total_cost, total_calls or
\* the sample list of a pass at reference time now has a timestamp t with
\* now - t <= 5h and t <= now.
C1_ContributorsInWindow ==
    usage.state = "ok" =>
        \A pl \in usage.touched \cup Counted(usage) :
            LET rec == LineAt(usage.scanned, pl)
            IN /\ rec.ts.state = "ok"
               /\ usage.at - rec.ts.at <= 300
               /\ rec.ts.at <= usage.at

\* A message line whose timestamp parses and lies in the last 5 hours.
InRangeMessage(rec, t) ==
    /\ rec.kind = "message" /\ rec.ts.state = "ok"
    /\ t - rec.ts.at <= 300 /\ rec.ts.at <= t

\* C2 as stated: every message line whose timestamp parses and lies within the
\* last 5 hours is counted, whatever file it is in.
C2_InRangeAlwaysCounted ==
    usage.state = "ok" =>
        \A pl \in Places(usage.scanned) :
            InRangeMessage(LineAt(usage.scanned, pl), usage.at) =>
                pl \in Counted(usage)

\* C2 amended: a message line whose timestamp parses and is not older than
\* 5 hours is counted exactly when its file is readable (read_text succeeds:
\* the file may be read and decodes) and was modified within the last 5
\* hours, its model is not the delivery mirror, and its usage fields are
\* well-formed; no other line is counted.
C2_CountedIffFileAndRecordPass ==
    usage.state = "ok" =>
        \A pl \in Places(usage.scanned) :
            LET rec == LineAt(usage.scanned, pl)
                file == usage.scanned[pl[1]]
                candidate == /\ rec.kind = "message" /\ rec.ts.state = "ok"
                             /\ usage.at - rec.ts.at <= 300
            IN pl \in Counted(usage) <=>
                  /\ candidate
                  /\ file.readable
                  /\ \A i \in 1..Len(file.lines) : file.lines[i].kind # "undecodable"
                  /\ file.mtime >= usage.at - 300
                  /\ rec.model[Len(rec.model)] # "delivery-mirror"
                  /\ rec.shape = "ok"

\* A well-formed message line of the last 5 hours is left out because its file
\* was last modified more than 5 hours ago, while another line is counted.
C2_Witness ==
    /\ usage.state = "ok"
    /\ Counted(usage) # {}
    /\ \E pl \in Places(usage.scanned) :
          /\ InRangeMessage(LineAt(usage.scanned, pl), usage.at)
          /\ LineAt(usage.scanned, pl).shape = "ok"
          /\ LineAt(usage.scanned, pl).model # ModelMirror
          /\ CanReadText(usage.scanned[pl[1]])
          /\ usage.scanned[pl[1]].mtime < usage.at - 300
          /\ pl \notin Counted(usage)

\* The logs without the message lines that have no parsable timestamp.
WithoutUntimed(fs) ==
    LET Timed(rec) == rec.kind # "message" \/ rec.ts.state = "ok"
    IN [f \in LogFiles |-> [fs[f] EXCEPT !.lines = SelectSeq(@, Timed)]]

\* C3: message lines without a parsable timestamp contribute to no window:
\* the 5-hour figures and burn rates, and the per-day, today and week costs,
\* are what they would be without those lines.
C3_UntimedContributeNothing ==
    /\ usage.state = "ok" =>
          LET u == GetUsage5h(WithoutUntimed(usage.scanned), usage.at)
          IN /\ usage.per_model = u.per_model
             /\ usage.total_cost = u.total_cost
             /\ usage.total_calls = u.total_calls
             /\ usage.burn_tokens_per_min = u.burn_tokens_per_min
             /\ usage.burn_cost_per_min = u.burn_cost_per_min
    /\ costs.state = "ok" =>
          LET c == GetCosts(WithoutUntimed(costs.scanned), costs.at)
          IN /\ costs.per_day = c.per_day
             /\ costs.today = c.today
             /\ costs.week = c.week

\* The counted lines whose timestamp lies in the last 30 minutes.
CountedInLast30(u) ==
    {pl \in Counted(u) : LET t == LineAt(u.scanned, pl).ts.at
                         IN u.at - 30 <= t /\ t <= u.at}

\* C4: burn_tokens_per_min is 0 when no counted line falls in the last 30
\* minutes, and positive exactly when a counted line of the last 30 minutes
\* has positive output tokens.
C4_BurnRateSign ==
    usage.state = "ok" =>
        /\ CountedInLast30(usage) = {} => usage.burn_tokens_per_min[1] = 0
        /\ usage.burn_tokens_per_min[1] > 0 <=>
              \E pl \in CountedInLast30(usage) : LineAt(usage.scanned, pl).output > 0

\* The logs without the lines that fail to parse or are not message records.
WithoutSkipped(fs) ==
    LET IsMessage(rec) == rec.kind = "message"
    IN [f \in LogFiles |-> [fs[f] EXCEPT !.lines = SelectSeq(@, IsMessage)]]

\* C14: a line that fails to parse or is not a message record is skipped
\* without stopping the scan: the message lines after it in the same file and
\* the lines of the other files contribute as if it were not there, so the
\* results of get_usage_5h and get_costs are those of the logs without it.
C14_BadLineSkippedOnly ==
    /\ usage.state = "ok" =>
          LET u == GetUsage5h(WithoutSkipped(usage.scanned), usage.at)
          IN /\ usage.per_model = u.per_model
             /\ usage.total_cost = u.total_cost
             /\ usage.total_calls = u.total_calls
             /\ usage.burn_tokens_per_min = u.burn_tokens_per_min
             /\ usage.burn_cost_per_min = u.burn_cost_per_min
             /\ usage.opus_out = u.opus_out
             /\ usage.sonnet_out = u.sonnet_out
    /\ costs.state = "ok" =>
          LET c == GetCosts(WithoutSkipped(costs.scanned), costs.at)
          IN /\ costs.total = c.total
             /\ costs.per_model = c.per_model
             /\ costs.per_day = c.per_day
             /\ costs.today = c.today
             /\ costs.week = c.week

\* The logs without the message lines whose processing raises in get_usage_5h.
WithoutRaising(fs) ==
    LET Passes(rec) == rec.kind # "message" \/ rec.shape = "ok"
    IN [f \in LogFiles |-> [fs[f] EXCEPT !.lines = SelectSeq(@, Passes)]]

\* C17: in get_usage_5h a record contributes all or nothing: one skipped
\* because processing it raised changes no accumulator, so every per-model
\* bucket has calls >= 1, the per-model calls add up to total_calls, and the
\* result is that of the same logs without the skipped records.
C17_AllOrNothing ==
    usage.state = "ok" =>
        LET u == GetUsage5h(WithoutRaising(usage.scanned), usage.at)
            calls_of == [m \in DOMAIN usage.per_model |-> usage.per_model[m].calls]
        IN /\ \A m \in DOMAIN usage.per_model : usage.per_model[m].calls >= 1
           /\ SumDict(calls_of, DOMAIN calls_of) = usage.total_calls
           /\ usage.per_model = u.per_model
           /\ usage.total_cost = u.total_cost
           /\ usage.total_calls = u.total_calls
           /\ usage.burn_tokens_per_min = u.burn_tokens_per_min
           /\ usage.burn_cost_per_min = u.burn_cost_per_min

(***************************************************************************)
(* The daily cost rollup over many days                                    *)
(*                                                                         *)
(* The same files, clock and panels as above, fed for several days by two  *)
(* sessions that write nothing but cost-positive message lines, each into  *)
(* its own log: the first session writes one line every day, the second    *)
(* one line on some days.                                                  *)
(***************************************************************************)
MaxDays == 8            \* number of calendar days the logs may span

\* Minutes in a day.
DayLength == 24 * 60

\* The line the session logging to f writes at instant w: each session has
\* its own model and cost per call.
CostLineOf(f, w) ==
    IF f = LogFileSeq[1] THEN Message(OkTs(w), ModelOpus, "ok", 100, 2)
    ELSE Message(OkTs(w), ModelSonnet, "ok", 100, 3)

RollupInit == LogInit

\* f has a line written on the day of instant t.
WrittenOn(f, t) ==
    /\ files[f].lines # <<>>
    /\ files[f].lines[Len(files[f].lines)].ts.day = DayOf(t)

\* A session appends a cost-positive message line to its log, its first of
\* the day.
WriteCostLine ==
    /\ PanelsUpToDate
    /\ \E f \in LogFiles :
          /\ ~WrittenOn(f, now)
          /\ files' = [files EXCEPT ![f] = [exists |-> TRUE, readable |-> @.readable,
                                         mtime |-> now,
                                         lines |-> Append(@.lines, CostLineOf(f, now))]]
    /\ UNCHANGED <<now, usage, costs, quantVars, timerVars, sessionVars>>

\* Midnight passes, after the first session has written its line of the day.
NextDay ==
    /\ PanelsUpToDate
    /\ WrittenOn(LogFileSeq[1], now)
    /\ now + DayLength < MaxDays * DayLength
    /\ now' = now + DayLength
    /\ UNCHANGED <<files, usage, costs, quantVars, timerVars, sessionVars>>

RollupNext == WriteCostLine \/ NextDay \/ UsageRefresh \/ CostsRefresh

SpecRollup == RollupInit /\ [][RollupNext]_vars

\* C13: when the logs hold only cost-positive message lines, the per-day
\* costs of the result of get_costs add up to its all-time total, however
\* many distinct days the lines span.
C13_PerDaySumsToTotal ==
    costs.state = "ok" =>
        SumDict(costs.per_day, DOMAIN costs.per_day) = costs.total

====
